---- MODULE Spec2Model ----
(***************************************************************************)
(* Model of the lockfile linter (lint-lockfile): one run of run() and of   *)
(* the .then/.catch handlers attached to it, over a disk holding a         *)
(* package.json and a package-lock.json, a git working tree and an npm     *)
(* that regenerates the lockfile.                                          *)
(*                                                                         *)
(* Text is a sequence of lines and a line is a sequence of tokens, so      *)
(* that trim / startsWith / includes are computed, not assumed.            *)
(***************************************************************************)
EXTENDS Integers, Sequences, FiniteSets, TLC

\* Number of distinct version strings a document can carry.
MaxVersion == 2

\* Number of consecutive invocations of the linter on the same disk.
MaxRuns == 2

EXIT_DRIFT == 2

Versions == { ToString(v) : v \in 1..MaxVersion }

----------------------------------------------------------------------------
\* Documents on disk and in memory

\* A file on disk is JSON text: an ordered sequence of <<key, value>>
\* entries.  loadJSON parses it into a mapping from the keys present.
loadJSON(text) ==
    [ k \in { text[i][1] : i \in DOMAIN text } |->
        LET last == CHOOSE i \in DOMAIN text :
                        /\ text[i][1] = k
                        /\ \A j \in DOMAIN text : text[j][1] = k => j <= i
        IN  text[last][2] ]

\* Variant of the comparison that tests for the same object: two separately
\* parsed documents never are.
isDeepStrictEqual_sameReference(a, b) == FALSE

\* util.isDeepStrictEqual / assert.deepStrictEqual on two parsed documents:
\* same own keys, equal values; key order is not significant.
isDeepStrictEqual(a, b) ==
    /\ DOMAIN a = DOMAIN b
    /\ \A k \in DOMAIN a : a[k] = b[k]

\* Keys of the documents, in the order util.inspect prints them when
\* assert renders a value (sorted: true).
KeyOrder == <<"bar", "name", "peer", "peerDependencies", "version">>

\* package.json texts: name and version, in either key order.
ManifestTexts ==
    UNION { { << <<"name", "foo">>, <<"version", v>> >>,
              << <<"version", v>>, <<"name", "foo">> >> } : v \in Versions }

\* package-lock.json texts as npm writes them: a resolved version of the
\* dependency bar, an optional `peer: true` marker, an optional
\* peerDependencies block.
LockTexts ==
    { << <<"bar", v>> >> \o p \o d :
        v \in Versions,
        p \in { <<>>, << <<"peer", "true">> >> },
        d \in { <<>>, << <<"peerDependencies", "{}">> >> } }

----------------------------------------------------------------------------
\* Paths

dirname(path) == SubSeq(path, 1, Len(path) - 1)

\* The working directories a run can be started in.
Cwds == { <<"repo">>, <<"repo", "pkgs", "foo">> }

----------------------------------------------------------------------------
\* Text: a message is a sequence of lines, a line a sequence of tokens

\* Terminal colour sequences assert puts around diff markers on a tty.
GREEN == "ESC[32m"
RED == "ESC[31m"
WHITE == "ESC[39m"
VTControlCharacters == { GREEN, RED, WHITE }

stripVTControlCharacters(lines) ==
    [ i \in DOMAIN lines |->
        SelectSeq(lines[i], LAMBDA t : t \notin VTControlCharacters) ]

RECURSIVE trimStart(_)
trimStart(line) ==
    IF line # <<>> /\ Head(line) = " " THEN trimStart(Tail(line)) ELSE line

RECURSIVE trimEnd(_)
trimEnd(line) ==
    IF line # <<>> /\ line[Len(line)] = " "
    THEN trimEnd(SubSeq(line, 1, Len(line) - 1))
    ELSE line

trim(line) == trimEnd(trimStart(line))

startsWith(line, prefix) ==
    /\ Len(line) >= Len(prefix)
    /\ SubSeq(line, 1, Len(prefix)) = prefix

\* Variant of includes that matches at the start of the line only.
includes_atStart(line, part) ==
    /\ Len(line) >= Len(part)
    /\ SubSeq(line, 1, Len(part)) = part

includes(line, part) ==
    \E i \in 1..(Len(line) - Len(part) + 1) :
        SubSeq(line, i, i + Len(part) - 1) = part

\* util.inspect of a parsed document as assert renders it: one line per
\* property, properties sorted by key, between a `{` and a `}` line.
inspectValue(doc) ==
    LET keys == SelectSeq(KeyOrder, LAMBDA k : k \in DOMAIN doc)
    IN  << <<"{">> >>
        \o [ i \in 1..Len(keys) |-> <<" ", " ", keys[i], ":", doc[keys[i]]>> ]
        \o << <<"}">> >>

RECURSIVE lcsLength(_, _)
lcsLength(a, b) ==
    IF a = <<>> \/ b = <<>> THEN 0
    ELSE IF Head(a) = Head(b) THEN 1 + lcsLength(Tail(a), Tail(b))
    ELSE LET l == lcsLength(Tail(a), b)
             r == lcsLength(a, Tail(b))
         IN  IF l >= r THEN l ELSE r

\* The line diff assert prints for deepStrictEqual: a shortest edit script
\* from the expected to the actual lines; `+` marks a line only in actual,
\* `-` a line only in expected, unchanged lines are indented.
RECURSIVE myersDiff(_, _, _)
myersDiff(actual, expected, colors) ==
    LET plus(l)  == (IF colors THEN <<GREEN, "+", WHITE>> ELSE <<"+">>) \o <<" ">> \o l
        minus(l) == (IF colors THEN <<RED, "-", WHITE>> ELSE <<"-">>) \o <<" ">> \o l
        nop(l)   == (IF colors THEN <<WHITE>> ELSE <<>>) \o <<" ", " ">> \o l
    IN  IF actual = <<>> /\ expected = <<>> THEN <<>>
        ELSE IF actual = <<>>
            THEN <<minus(Head(expected))>> \o myersDiff(actual, Tail(expected), colors)
        ELSE IF expected = <<>>
            THEN <<plus(Head(actual))>> \o myersDiff(Tail(actual), expected, colors)
        ELSE IF Head(actual) = Head(expected)
            THEN <<nop(Head(actual))>> \o myersDiff(Tail(actual), Tail(expected), colors)
        ELSE IF lcsLength(Tail(actual), expected) >= lcsLength(actual, Tail(expected))
            THEN <<plus(Head(actual))>> \o myersDiff(Tail(actual), expected, colors)
        ELSE <<minus(Head(expected))>> \o myersDiff(actual, Tail(expected), colors)

\* error.message of the AssertionError of assert.deepStrictEqual called
\* with a custom message: the message, the diff header, the diff.
createErrDiff(actual, expected, message, colors) ==
    LET header == IF colors
                  THEN <<GREEN, "+", "actual", WHITE, " ", RED, "-", "expected", WHITE>>
                  ELSE <<"+", "actual", " ", "-", "expected">>
    IN  message \o <<header, <<>>>>
        \o myersDiff(inspectValue(actual), inspectValue(expected), colors)

----------------------------------------------------------------------------
\* Errors and messages

NoError == [name |-> "none", message |-> <<>>]
AssertionError(message) == [name |-> "AssertionError", message |-> message]
Error(message) == [name |-> "Error", message |-> message]

\* One-line message made of a fixed text and a path.
Message(text, path) == << <<text>> \o path >>

PackageDirtyMessage(path) == Message("package.json has uncommitted changes:", path)
LockfileDirtyMessage(path) == Message("package-lock.json has uncommitted changes:", path)
ManifestModifiedMessage(path) ==
    Message("package.json was unexpectedly modified during lockfile check:", path)
OutOfSyncMessage == Message("package-lock.json is out of sync with package.json", <<>>)
DriftMessage(lines) == << <<"Lockfile drift detected:">> >> \o lines

\* Variant of check that collects the message in strict mode as well.
check_alwaysCollects(ok, message, warnMode, issueList) ==
    IF ok THEN [issues |-> issueList, error |-> NoError]
    ELSE [issues |-> Append(issueList, message), error |-> NoError]

\* Variant of check that throws in warn mode as well.
check_alwaysThrows(ok, message, warnMode, issueList) ==
    IF ok THEN [issues |-> issueList, error |-> NoError]
    ELSE [issues |-> issueList, error |-> AssertionError(message)]

\* check(ok, message): nothing when ok; in warn mode the message is pushed
\* to the issues; in strict mode assert.fail(message) throws.
check(ok, message, warnMode, issueList) ==
    IF ok THEN [issues |-> issueList, error |-> NoError]
    ELSE IF warnMode THEN [issues |-> Append(issueList, message), error |-> NoError]
    ELSE [issues |-> issueList, error |-> AssertionError(message)]

\* assert.deepStrictEqual(actual, expected, message): the AssertionError it
\* throws, or NoError.
assertDeepStrictEqual(actualDoc, expectedDoc, message, colors) ==
    IF ~isDeepStrictEqual(actualDoc, expectedDoc)
    THEN AssertionError(createErrDiff(actualDoc, expectedDoc, message, colors))
    ELSE NoError

\* Variant of checkDeep that never throws: it collects in both modes.
checkDeep_neverThrows(actualDoc, expectedDoc, message, warnMode, issueList, colors) ==
    IF ~isDeepStrictEqual(actualDoc, expectedDoc)
    THEN [issues |-> Append(issueList, message), error |-> NoError]
    ELSE [issues |-> issueList, error |-> NoError]

\* checkDeep(actual, expected, message): in warn mode pushes the message
\* when the values are not deeply equal; in strict mode
\* assert.deepStrictEqual throws an AssertionError carrying the diff.
checkDeep(actualDoc, expectedDoc, message, warnMode, issueList, colors) ==
    IF warnMode
    THEN IF ~isDeepStrictEqual(actualDoc, expectedDoc)
         THEN [issues |-> Append(issueList, message), error |-> NoError]
         ELSE [issues |-> issueList, error |-> NoError]
    ELSE [issues |-> issueList,
          error |-> assertDeepStrictEqual(actualDoc, expectedDoc, message, colors)]

\* Variant of the manifest assertion that is mode-gated like the lockfile
\* comparison.
compareManifest_modeGated(actualDoc, expectedDoc, path, warnMode, issueList, colors) ==
    IF warnMode
    THEN IF ~isDeepStrictEqual(actualDoc, expectedDoc)
         THEN [issues |-> Append(issueList, ManifestModifiedMessage(path)),
               error |-> NoError]
         ELSE [issues |-> issueList, error |-> NoError]
    ELSE [issues |-> issueList,
          error |-> assertDeepStrictEqual(actualDoc, expectedDoc,
                                          ManifestModifiedMessage(path), colors)]

\* The manifest assertion of the compare step: assert.deepStrictEqual in
\* both modes, never routed through checkDeep.
compareManifest(actualDoc, expectedDoc, path, warnMode, issueList, colors) ==
    [issues |-> issueList,
     error |-> assertDeepStrictEqual(actualDoc, expectedDoc,
                                     ManifestModifiedMessage(path), colors)]

\* The changed lines the catch block keeps from the assertion message:
\* addition/removal lines, without the diff header and without any line
\* containing `peer:`.
driftLines(errorMessage) ==
    LET stripped == stripVTControlCharacters(errorMessage)
        trimmed  == [ i \in DOMAIN stripped |-> trim(stripped[i]) ]
        marked   == SelectSeq(trimmed,
                        LAMBDA l : startsWith(l, <<"-">>) \/ startsWith(l, <<"+">>))
        noHeader == SelectSeq(marked,
                        LAMBDA l : ~startsWith(l, <<"+", "actual", " ", "-", "expected">>))
    IN  SelectSeq(noHeader, LAMBDA l : ~includes(l, <<"peer", ":">>))

----------------------------------------------------------------------------
\* State

VARIABLES
    warn,             \* options.warn
    skipGit,          \* options["skip-git"]
    cwd,              \* parseCWD(positionals)
    gitTree,          \* version-control state of the two tracked files
    initial,          \* text of the two files when the process started
    finished,         \* exit codes of the earlier invocations
    disk,             \* text of package.json and package-lock.json on disk
    pc,               \* phase of the run
    packageJSONPath,  \* findPackageJSON(resolvedPath)
    packageLockPath,  \* findNPMPackage(packageDir).packageLockPath
    isWorkspace,      \* lockfileDir !== packageDir
    useCorepack,      \* !!corepackVersion
    expected,         \* snapshot read before regeneration
    actual,           \* snapshot read after regeneration
    issues,           \* the issues array of run()
    evaluated,        \* checks evaluated so far, with their outcome
    calls,            \* number of invocations of each external call
    log,              \* lines written through the logger
    error,            \* the error run() rejected with
    exit,             \* <<>> while the process runs, <<code>> once it exited
    modelForm,        \* a ModelForm element: its fields and its pending promises
    akModal,          \* an AKModal element and the dialog it is placed in
    deleteBulkForm,   \* a DeleteBulkForm element, its deletes and its messages
    formsModal        \* a FormsModal element, its form's submits and its events

vars == << warn, skipGit, cwd, gitTree, initial, finished, disk, pc, packageJSONPath,
           packageLockPath, isWorkspace, useCorepack, expected, actual,
           issues, evaluated, calls, log, error, exit, modelForm, akModal,
           deleteBulkForm, formsModal >>

\* The state of the linter, which the web elements do not touch.
lint == << warn, skipGit, cwd, gitTree, initial, finished, disk, pc,
           packageJSONPath, packageLockPath, isWorkspace, useCorepack,
           expected, actual, issues, evaluated, calls, log, error, exit >>

\* The web elements of the page, which the linter does not touch.
elements == << modelForm, akModal, deleteBulkForm, formsModal >>

\* What the methods of each element leave alone.
besidesModelForm == << lint, akModal, deleteBulkForm, formsModal >>
besidesAKModal == << lint, modelForm, deleteBulkForm, formsModal >>
besidesDeleteBulkForm == << lint, modelForm, akModal, formsModal >>
besidesFormsModal == << lint, modelForm, akModal, deleteBulkForm >>

options == << warn, skipGit, cwd >>
environment == << gitTree, initial, finished >>
paths == << packageJSONPath, packageLockPath, isWorkspace >>

CallNames == { "findPackageJSON", "findNPMPackage", "corepack", "loadJSON",
               "gitStatus", "npmVersion", "npmInstall" }

GitStates == { "unavailable", "clean", "dirty" }

NoSnapshot == [lockfile |-> <<>>, package |-> <<>>]

\* A pk that was never assigned.
Undefined == "undefined"

\* A ModelForm after construction (field initialisers), not yet updated.
NewModelForm ==
    [ instancePk      |-> Undefined,
      initialLoad     |-> FALSE,
      initialDataLoad |-> FALSE,
      loading         |-> FALSE,
      instance        |-> <<>>,
      hasUpdated      |-> FALSE,
      promises        |-> <<>>,
      loadCalls       |-> 0,
      assignments     |-> 0,
      touched         |-> FALSE ]

\* An AKModal after construction, not yet connected, and its dialog.
NewAKModal ==
    [ attached   |-> FALSE,
      open       |-> FALSE,
      fadeIn     |-> FALSE,
      transition |-> FALSE,
      listeners  |-> <<>>,
      observed   |-> FALSE,
      history    |-> <<>> ]

\* A DeleteBulkForm after construction: an AKModal with no delete started.
NewDeleteBulkForm ==
    [ modal     |-> NewAKModal,
      objects   |-> 0,
      deletes   |-> <<>>,
      confirm   |-> "none",
      parsing   |-> FALSE,
      messages  |-> <<>>,
      refreshes |-> 0 ]

\* A FormsModal after construction: an AKModal with no submit started.
NewFormsModal ==
    [ modal                      |-> NewAKModal,
      closeAfterSuccessfulSubmit |-> TRUE,
      loading                    |-> FALSE,
      confirms                   |-> <<>>,
      pending                    |-> 0,
      settled                    |-> <<>>,
      submits                    |-> 0,
      resets                     |-> 0,
      refreshes                  |-> 0 ]

Init ==
    /\ formsModal = NewFormsModal
    /\ modelForm = NewModelForm
    /\ akModal = NewAKModal
    /\ deleteBulkForm = NewDeleteBulkForm
    /\ warn \in BOOLEAN
    /\ skipGit \in BOOLEAN
    /\ cwd \in Cwds
    /\ gitTree \in [ {"package", "lockfile"} -> GitStates ]
    /\ disk \in [ package : { t \in ManifestTexts : t[1][1] = "name" },
                  lockfile : LockTexts ]
    /\ initial = disk
    /\ finished = <<>>
    /\ pc = "Idle"
    /\ packageJSONPath = <<>>
    /\ packageLockPath = <<>>
    /\ isWorkspace = FALSE
    /\ useCorepack = FALSE
    /\ expected = NoSnapshot
    /\ actual = NoSnapshot
    /\ issues = <<>>
    /\ evaluated = <<>>
    /\ calls = [ c \in CallNames |-> 0 ]
    /\ log = <<>>
    /\ error = NoError
    /\ exit = <<>>

info(lg, message) == Append(lg, [level |-> "info", message |-> message])
warning(lg, message) == Append(lg, [level |-> "warn", message |-> message])

called(cs, name, n) == [cs EXCEPT ![name] = @ + n]

Evaluated(name, ok) == [check |-> name, ok |-> ok]

\* gitStatus(path): whether git could be queried for the path and whether
\* the path is free of uncommitted changes.
gitStatus(file) ==
    [available |-> gitTree[file] # "unavailable", clean |-> gitTree[file] = "clean"]

\* Variant of the guard's condition that skips only when git answered for
\* neither file.
gitUnavailable_forBoth(packageStatus, lockfileStatus) ==
    ~packageStatus.available /\ ~lockfileStatus.available

\* The guard skips the dirty checks unless git answered for both files.
gitUnavailable(packageStatus, lockfileStatus) ==
    ~packageStatus.available \/ ~lockfileStatus.available

\* Variant of the skip test that never skips the guard.
guardSkipped_never(skipGitOption) == FALSE

\* options["skip-git"] decides whether the guard is skipped.
guardSkipped(skipGitOption) == skipGitOption

\* Variant of the workspace test that compares for equality.
differentDirectory_inverted(lockfileDir, packageDir) == lockfileDir = packageDir

\* lockfileDir !== packageDir
differentDirectory(lockfileDir, packageDir) == lockfileDir # packageDir

\* reportAndExit(error, logger): logs the error and ends the process with
\* the generic error code.
reportAndExit(err, lg) ==
    [log |-> Append(lg, [level |-> "error", message |-> err.message]), exitCode |-> 1]

\* Variant of the rejection that hands the run to the reporter.
Reject_reports(err, lg) ==
    LET r == reportAndExit(err, lg)
    IN  /\ error' = err
        /\ log' = r.log
        /\ exit' = exit
        /\ pc' = "Reporting"

\* run() rejected with err: the .catch handler reports it and exits.
Reject(err, lg) ==
    LET r == reportAndExit(err, lg)
    IN  /\ error' = err
        /\ log' = r.log
        /\ exit' = <<r.exitCode>>
        /\ pc' = "Failed"

----------------------------------------------------------------------------
\* The run

\* run() is called: the first log line.
Start ==
    /\ pc = "Idle"
    /\ pc' = "Resolving"
    /\ log' = info(log, Message("Linting lockfile integrity in:", cwd))
    /\ UNCHANGED << elements, options, environment, disk, paths, useCorepack, expected,
                    actual, issues, evaluated, calls, error, exit >>

\* MARK: Locate files, and the corepack probe.
Resolve ==
    /\ pc = "Resolving"
    /\ UNCHANGED << elements, options, environment, disk, expected, actual, issues,
                    evaluated >>
    /\ \E found \in BOOLEAN :
         IF ~found
         THEN /\ calls' = called(calls, "findPackageJSON", 1)
              /\ Reject(AssertionError(Message(
                     "Could not find package.json in the current directory or any parent directories",
                     <<>>)), log)
              /\ UNCHANGED << paths, useCorepack >>
         ELSE LET packagePath == cwd \o <<"package.json">>
                  packageDir == dirname(packagePath)
              IN  \E n \in {0, 1, Len(packageDir)} :
                    IF n = 0
                    THEN /\ calls' = called(called(calls, "findPackageJSON", 1),
                                            "findNPMPackage", 1)
                         /\ Reject(Error(Message("Could not find package-lock.json", <<>>)), log)
                         /\ UNCHANGED << paths, useCorepack >>
                    ELSE LET lockPath == SubSeq(packageDir, 1, n) \o <<"package-lock.json">>
                             lockfileDir == dirname(lockPath)
                         IN  \E corepackVersion \in { "null", "0.34.0" } :
                               /\ packageJSONPath' = packagePath
                               /\ packageLockPath' = lockPath
                               /\ isWorkspace' = differentDirectory(lockfileDir, packageDir)
                               /\ useCorepack' = (corepackVersion # "null")
                               /\ calls' = called(called(called(calls,
                                              "findPackageJSON", 1),
                                              "findNPMPackage", 1), "corepack", 1)
                               /\ log' = info(log, Message("corepack",
                                     <<IF corepackVersion # "null"
                                       THEN corepackVersion ELSE "disabled">>))
                               /\ error' = error
                               /\ exit' = exit
                               /\ pc' = "ReadingExpected"

\* Variant of the snapshot read that loads the lockfile a second time
\* when the first load threw.
ReadSnapshot_retries(snapshot, then, lg) ==
    \E lockfileOk \in BOOLEAN, retryOk \in BOOLEAN :
      IF ~lockfileOk /\ ~retryOk
      THEN /\ calls' = called(calls, "loadJSON", 2)
           /\ Reject(Error(Message("Could not load", packageLockPath)), lg)
           /\ UNCHANGED snapshot
      ELSE /\ calls' = called(calls, "loadJSON", IF lockfileOk THEN 2 ELSE 3)
           /\ snapshot' = [lockfile |-> loadJSON(disk.lockfile),
                           package |-> loadJSON(disk.package)]
           /\ then
           /\ UNCHANGED << error, exit >>

\* The two loads of a snapshot: lockfile first, then package.json; either
\* may throw.
ReadSnapshot(snapshot, then, lg) ==
    \E lockfileOk \in BOOLEAN, packageOk \in BOOLEAN :
      IF ~lockfileOk
      THEN /\ calls' = called(calls, "loadJSON", 1)
           /\ Reject(Error(Message("Could not load", packageLockPath)), lg)
           /\ UNCHANGED snapshot
      ELSE IF ~packageOk
      THEN /\ calls' = called(calls, "loadJSON", 2)
           /\ Reject(Error(Message("Could not load", packageJSONPath)), lg)
           /\ UNCHANGED snapshot
      ELSE /\ calls' = called(calls, "loadJSON", 2)
           /\ snapshot' = [lockfile |-> loadJSON(disk.lockfile),
                           package |-> loadJSON(disk.package)]
           /\ then
           /\ UNCHANGED << error, exit >>

ReadExpected ==
    /\ pc = "ReadingExpected"
    /\ UNCHANGED << elements, options, environment, disk, paths, useCorepack, actual,
                    issues, evaluated >>
    /\ ReadSnapshot(expected,
          /\ pc' = "Guarding"
          /\ log' = info(info(log,
                Message("package.json:", packageJSONPath \o <<loadJSON(disk.package)["name"]>>)),
                Message("package-lock.json:", packageLockPath \o
                    (IF isWorkspace THEN <<"(workspace root)">> ELSE <<>>))),
          log)

\* MARK: Uncommitted changes.
Guard ==
    /\ pc = "Guarding"
    /\ UNCHANGED << elements, options, environment, disk, paths, useCorepack, expected,
                    actual >>
    /\ IF guardSkipped(skipGit)
       THEN /\ log' = warning(log, Message("Skipping git status check", <<>>))
            /\ pc' = "Regenerating"
            /\ UNCHANGED << issues, evaluated, calls, error, exit >>
       ELSE LET packageStatus == gitStatus("package")
                lockfileStatus == gitStatus("lockfile")
            IN  /\ calls' = called(calls, "gitStatus", 2)
                /\ IF gitUnavailable(packageStatus, lockfileStatus)
                   THEN /\ log' = warning(log, Message(
                              "Git is not available; skipping uncommitted change detection.",
                              <<>>))
                        /\ pc' = "Regenerating"
                        /\ UNCHANGED << issues, evaluated, error, exit >>
                   ELSE LET first == check(packageStatus.clean,
                                           PackageDirtyMessage(packageJSONPath),
                                           warn, issues)
                            second == check(lockfileStatus.clean,
                                            LockfileDirtyMessage(packageLockPath),
                                            warn, first.issues)
                        IN  IF first.error # NoError
                            THEN /\ evaluated' = Append(evaluated,
                                        Evaluated("package.json clean", FALSE))
                                 /\ issues' = first.issues
                                 /\ Reject(first.error, log)
                            ELSE /\ evaluated' = evaluated \o
                                        << Evaluated("package.json clean", packageStatus.clean),
                                           Evaluated("package-lock.json clean", lockfileStatus.clean) >>
                                 /\ issues' = second.issues
                                 /\ IF second.error # NoError
                                    THEN Reject(second.error, log)
                                    ELSE /\ pc' = "Regenerating"
                                         /\ UNCHANGED << log, error, exit >>

\* MARK: Regenerate.  npm --version, then npm install --package-lock-only
\* in the lockfile's directory, which rewrites the lockfile (and is not
\* supposed to touch package.json).
Regenerate ==
    /\ pc = "Regenerating"
    /\ UNCHANGED << elements, options, environment, paths, useCorepack, expected, actual,
                    issues, evaluated >>
    /\ \E npmVersion \in { "failed", "11.6.2" } :
         IF npmVersion = "failed"
         THEN /\ calls' = called(calls, "npmVersion", 1)
              /\ Reject(Error(Message("npm --version failed", <<>>)), log)
              /\ UNCHANGED disk
         ELSE \E installed \in BOOLEAN :
                /\ calls' = called(called(calls, "npmVersion", 1), "npmInstall", 1)
                /\ IF ~installed
                   THEN /\ Reject(Error(Message("npm install failed", <<>>)),
                                  info(log, Message("Detected npm version:", <<npmVersion>>)))
                        /\ UNCHANGED disk
                   ELSE /\ \E lockfile \in LockTexts, package \in ManifestTexts :
                              disk' = [lockfile |-> lockfile, package |-> package]
                        /\ log' = info(info(log,
                                Message("Detected npm version:", <<npmVersion>>)),
                                Message("npm install complete.", <<>>))
                        /\ pc' = "ReadingActual"
                        /\ UNCHANGED << error, exit >>

ReadActual ==
    /\ pc = "ReadingActual"
    /\ UNCHANGED << elements, options, environment, disk, paths, useCorepack, expected,
                    issues, evaluated >>
    /\ ReadSnapshot(actual,
          /\ pc' = "Comparing"
          /\ log' = log,
          log)

\* MARK: Compare.  The manifest assertion, then checkDeep on the lockfile
\* inside the try/catch that filters the assertion's diff.
Compare ==
    /\ pc = "Comparing"
    /\ UNCHANGED << elements, options, environment, disk, paths, useCorepack, expected,
                    actual, calls >>
    /\ \E colors \in BOOLEAN :
         LET manifest == compareManifest(actual.package, expected.package,
                                         packageJSONPath, warn, issues, colors)
             deep == checkDeep(actual.lockfile, expected.lockfile,
                               OutOfSyncMessage, warn, manifest.issues, colors)
             lines == driftLines(deep.error.message)
             inSync == isDeepStrictEqual(actual.lockfile, expected.lockfile)
         IN  IF manifest.error # NoError
             THEN /\ evaluated' = Append(evaluated,
                                         Evaluated("package.json unmodified", FALSE))
                  /\ issues' = manifest.issues
                  /\ Reject(manifest.error, log)
             ELSE /\ issues' = deep.issues
                  /\ IF deep.error = NoError
                     THEN /\ evaluated' = evaluated \o
                                << Evaluated("package.json unmodified", TRUE),
                                   Evaluated("package-lock.json in sync", inSync) >>
                          /\ pc' = "Reporting"
                          /\ UNCHANGED << log, error, exit >>
                     ELSE IF deep.error.name # "AssertionError"
                     THEN /\ UNCHANGED evaluated
                          /\ Reject(deep.error, log)
                     ELSE IF Len(lines) > 0
                     THEN /\ evaluated' = evaluated \o
                                << Evaluated("package.json unmodified", TRUE),
                                   Evaluated("package-lock.json in sync", FALSE) >>
                          /\ Reject(Error(DriftMessage(lines)), log)
                     ELSE /\ evaluated' = evaluated \o
                                << Evaluated("package.json unmodified", TRUE),
                                   Evaluated("package-lock.json in sync", TRUE) >>
                          /\ log' = warning(log, Message(
                                "Optional peer dependency differences detected. Run npm install to update the lockfile.",
                                <<>>))
                          /\ pc' = "Reporting"
                          /\ UNCHANGED << error, exit >>

\* `  - ${issue}`
IssueLine(issue) == << <<"  -">> \o issue[1] >> \o Tail(issue)

\* Variant of the issue loop that logs the first issue only.
logIssues_firstOnly(lg, issueList) ==
    IF issueList = <<>> THEN lg
    ELSE warning(lg, IssueLine(Head(issueList)))

RECURSIVE logIssues(_, _)
logIssues(lg, issueList) ==
    IF issueList = <<>> THEN lg
    ELSE logIssues(warning(lg, IssueLine(Head(issueList))), Tail(issueList))

\* run() resolved: the .then handler.
Report ==
    /\ pc = "Reporting"
    /\ pc' = "Done"
    /\ UNCHANGED << elements, options, environment, disk, paths, useCorepack, expected,
                    actual, issues, evaluated, calls, error >>
    /\ IF Len(issues) > 0
       THEN LET listed == logIssues(
                    warning(log, Message("issue(s) detected:", <<ToString(Len(issues))>>)),
                    issues)
            IN  IF warn
                THEN /\ log' = warning(listed, Message(
                          "The lockfile on disk has been regenerated. Review and commit the changes.",
                          <<>>))
                     /\ exit' = <<EXIT_DRIFT>>
                ELSE /\ log' = listed
                     /\ exit' = <<0>>
       ELSE /\ log' = info(log, Message("Lockfile is in sync.", <<>>))
            /\ exit' = <<0>>

Next ==
    \/ Start
    \/ Resolve
    \/ ReadExpected
    \/ Guard
    \/ Regenerate
    \/ ReadActual
    \/ Compare
    \/ Report

Spec == Init /\ [][Next]_vars

\* The caller invokes the linter again after an invocation that reported
\* in sync and left both files as they were: a new process, the same
\* options, the same disk, and, no file having changed, the same git
\* status.
Restart ==
    /\ pc = "Done"
    /\ exit = <<0>>
    /\ disk = initial
    /\ Len(finished) + 1 < MaxRuns
    /\ finished' = Append(finished, exit[1])
    /\ pc' = "Idle"
    /\ packageJSONPath' = <<>>
    /\ packageLockPath' = <<>>
    /\ isWorkspace' = FALSE
    /\ useCorepack' = FALSE
    /\ expected' = NoSnapshot
    /\ actual' = NoSnapshot
    /\ issues' = <<>>
    /\ evaluated' = <<>>
    /\ calls' = [ c \in CallNames |-> 0 ]
    /\ log' = <<>>
    /\ error' = NoError
    /\ exit' = <<>>
    /\ UNCHANGED << elements, options, gitTree, initial, disk >>

InitTwice == Init /\ cwd = <<"repo">>

NextTwice == Next \/ Restart

SpecTwice == InitTwice /\ [][NextTwice]_vars

----------------------------------------------------------------------------
\* ModelForm

MaxPk == 2
MaxAssignments == 3

\* Primary keys a caller assigns: non-empty strings.
Pks == { ToString(i) : i \in 1..MaxPk }

\* JavaScript truthiness of a pk.
truthy(value) == value \notin { Undefined, "" }

\* The object the server returns for a pk.
loadInstance(pk) == <<pk>>

\* A pending promise, the callback registered on it, and the value the
\* callback closed over.
Promise(of, then, value) == [of |-> of, then |-> then, value |-> value]

\* The linter is not running while the page is used.
NotLinting ==
    /\ warn = FALSE
    /\ skipGit = FALSE
    /\ cwd = <<"repo">>
    /\ gitTree = [ f \in {"package", "lockfile"} |-> "clean" ]
    /\ disk = [ package |-> << <<"name", "foo">>, <<"version", "1">> >>,
                lockfile |-> << <<"bar", "1">> >> ]

\* set instancePk(value): stores the key; unless a load is in flight,
\* starts load() and registers the callback that loads the instance of
\* `value`.
setInstancePk(form, value) ==
    LET stored == [form EXCEPT !.instancePk = value]
    IN  IF stored.loading THEN stored
        ELSE [stored EXCEPT
                !.loading = TRUE,
                !.loadCalls = @ + 1,
                !.promises = Append(@, Promise("load", "instancePk", value))]

\* A caller assigns the pk property or attribute.
AssignInstancePk ==
    /\ modelForm.assignments < MaxAssignments
    /\ \E value \in Pks :
         modelForm' = [setInstancePk(modelForm, value) EXCEPT !.assignments = @ + 1]
    /\ UNCHANGED besidesModelForm

\* firstUpdated(): with a pk and no initial load yet, re-assigns the pk;
\* otherwise starts the general data load unless it was done.
firstUpdated(form) ==
    IF truthy(form.instancePk) /\ ~form.initialLoad
    THEN [setInstancePk(form, form.instancePk) EXCEPT !.initialLoad = TRUE]
    ELSE IF ~form.initialDataLoad
    THEN [form EXCEPT
            !.loadCalls = @ + 1,
            !.promises = Append(@, Promise("load", "firstUpdated", Undefined))]
    ELSE form

\* Lit calls firstUpdated once, after the element's first update.
FirstUpdated ==
    /\ ~modelForm.hasUpdated
    /\ modelForm' = [firstUpdated(modelForm) EXCEPT !.hasUpdated = TRUE]
    /\ UNCHANGED besidesModelForm

\* The callback of a resolved promise.
settle(form, promise) ==
    IF promise.of = "load" /\ promise.then = "instancePk"
    THEN [form EXCEPT
            !.promises = Append(@, Promise("loadInstance", "instancePk", promise.value))]
    ELSE IF promise.of = "loadInstance" /\ promise.then = "instancePk"
    THEN [form EXCEPT !.instance = loadInstance(promise.value), !.loading = FALSE]
    ELSE IF promise.of = "load" /\ promise.then = "firstUpdated"
    THEN [form EXCEPT !.initialDataLoad = TRUE]
    ELSE [form EXCEPT !.instance = loadInstance(promise.value)]

Without(seq, i) == SubSeq(seq, 1, i - 1) \o SubSeq(seq, i + 1, Len(seq))

\* One of the pending promises resolves; its callback runs.
ResolvePromise ==
    /\ \E i \in DOMAIN modelForm.promises :
         modelForm' = settle([modelForm EXCEPT !.promises = Without(@, i)],
                             modelForm.promises[i])
    /\ UNCHANGED besidesModelForm

\* The EVENT_REFRESH listener added in connectedCallback.
onRefresh(form) ==
    IF ~truthy(form.instancePk) THEN form
    ELSE [form EXCEPT
            !.promises = Append(@, Promise("loadInstance", "refresh", form.instancePk))]

Refresh ==
    /\ ~modelForm.touched
    /\ modelForm' = [onRefresh(modelForm) EXCEPT !.touched = TRUE]
    /\ UNCHANGED besidesModelForm

\* reset(): back to the default instance; createDefaultInstance is not
\* implemented by the base class.
reset(form) == [form EXCEPT !.instance = <<>>, !.initialLoad = FALSE]

Reset ==
    /\ ~modelForm.touched
    /\ modelForm' = [reset(modelForm) EXCEPT !.touched = TRUE]
    /\ UNCHANGED besidesModelForm

\* render(): the loading placeholder or the form content.
render(form) ==
    IF (truthy(form.instancePk) /\ form.instance = <<>>) \/ ~form.initialDataLoad
    THEN "ak-empty-state loading"
    ELSE "form"

InitModelForm == Init /\ NotLinting

NextModelForm ==
    \/ AssignInstancePk
    \/ FirstUpdated
    \/ ResolvePromise
    \/ Refresh
    \/ Reset

SpecModelForm == InitModelForm /\ [][NextModelForm]_vars

\* Every promise resolves, and Lit runs the first update.
SpecModelFormLive ==
    /\ SpecModelForm
    /\ WF_vars(ResolvePromise)
    /\ WF_vars(FirstUpdated)

----------------------------------------------------------------------------
\* AKModal

MaxCalls == 4

\* addEventListener("transitionend", listener, { once: true }): a listener
\* already registered is not registered again.
addEventListener(listeners, listener) ==
    IF \E i \in DOMAIN listeners : listeners[i] = listener
    THEN listeners
    ELSE Append(listeners, listener)

\* Adding or removing the fade-in class of a displayed dialog starts (or
\* reverses) its transition; on a closed dialog nothing is displayed.
transitionStarts(modal, open, fadeIn) ==
    modal.transition \/ (open /\ fadeIn # modal.fadeIn)

\* show(): registers the fade-in listener, showModal() (which returns at
\* once on a dialog that is already open), adds the fade-in class.
show(modal) ==
    IF ~modal.attached THEN modal
    ELSE [modal EXCEPT
            !.listeners = addEventListener(@, "fadeInListener"),
            !.open = TRUE,
            !.fadeIn = TRUE,
            !.transition = transitionStarts(modal, TRUE, TRUE)]

\* close(): registers the fade-out listener, removes the fade-in class.
close(modal) ==
    IF ~modal.attached THEN modal
    ELSE [modal EXCEPT
            !.listeners = addEventListener(@, "fadeOutListener"),
            !.fadeIn = FALSE,
            !.transition = transitionStarts(modal, modal.open, FALSE)]

\* fadeInListener: fixes the dialog's height and observes the element.
fadeInListener(modal) == [modal EXCEPT !.observed = TRUE]

\* fadeOutListener: parentElement.requestClose().
fadeOutListener(modal) == [modal EXCEPT !.open = FALSE]

\* The dialog dispatches transitionend: every registered listener runs, in
\* the order of registration, and is removed (once: true).
RECURSIVE dispatchTransitionEnd(_)
dispatchTransitionEnd(modal) ==
    IF modal.listeners = <<>> THEN modal
    ELSE LET listener == Head(modal.listeners)
             rest == [modal EXCEPT !.listeners = Tail(@)]
         IN  dispatchTransitionEnd(
                IF listener = "fadeInListener" THEN fadeInListener(rest)
                ELSE fadeOutListener(rest))

\* connectedCallback(): marks the dialog and shows the modal.
Connected ==
    /\ ~akModal.attached
    /\ akModal' = [show([akModal EXCEPT !.attached = TRUE])
                      EXCEPT !.history = Append(@, "show")]
    /\ UNCHANGED besidesAKModal

\* show() is called: the open setter, the show listener.
Show ==
    /\ Len(akModal.history) < MaxCalls
    /\ akModal' = [show(akModal) EXCEPT !.history = Append(@, "show")]
    /\ UNCHANGED besidesAKModal

\* close() is called: the open setter, the close and cancel buttons.
Close ==
    /\ Len(akModal.history) < MaxCalls
    /\ akModal' = [close(akModal) EXCEPT !.history = Append(@, "close")]
    /\ UNCHANGED besidesAKModal

\* The running transition of the dialog ends.
TransitionEnd ==
    /\ akModal.transition
    /\ akModal' = dispatchTransitionEnd([akModal EXCEPT !.transition = FALSE])
    /\ UNCHANGED besidesAKModal

InitAKModal == Init /\ NotLinting

NextAKModal ==
    \/ Connected
    \/ Show
    \/ Close
    \/ TransitionEnd

SpecAKModal == InitAKModal /\ [][NextAKModal]_vars

----------------------------------------------------------------------------
\* DeleteBulkForm

MaxObjects == 3

\* Variant of Promise.all that waits for every promise and never rejects
\* (Promise.allSettled).
promiseAll_allSettled(promises) ==
    IF \A i \in DOMAIN promises : promises[i] # "pending" THEN "fulfilled"
    ELSE "pending"

\* Promise.all: rejected as soon as one promise is rejected, fulfilled when
\* all are.
promiseAll(promises) ==
    IF \E i \in DOMAIN promises : promises[i] = "rejected" THEN "rejected"
    ELSE IF \A i \in DOMAIN promises : promises[i] = "fulfilled" THEN "fulfilled"
    ELSE "pending"

\* The .then callback of confirm: success message, refresh event,
\* this.open = false.
deleted(form) ==
    [form EXCEPT
        !.messages = Append(@, "success"),
        !.refreshes = @ + 1,
        !.modal = [close(@) EXCEPT !.history = Append(@, "close")],
        !.confirm = "fulfilled"]

\* The .catch callback of confirm up to its await.
deleteFailed(form) == [form EXCEPT !.parsing = TRUE]

\* The callbacks Promise.all triggers when it settles.
afterAll(form, before) ==
    LET after == promiseAll(form.deletes)
    IN  IF before # "pending" \/ after = "pending" THEN form
        ELSE IF after = "fulfilled" THEN deleted(form)
        ELSE deleteFailed(form)

\* connectedCallback() of the modal the form is.
BulkConnected ==
    /\ ~deleteBulkForm.modal.attached
    /\ deleteBulkForm' = [deleteBulkForm EXCEPT
          !.modal = [show([@ EXCEPT !.attached = TRUE])
                        EXCEPT !.history = Append(@, "show")]]
    /\ UNCHANGED besidesDeleteBulkForm

\* confirm(), from the button of the open modal: one delete per object.
Confirm ==
    /\ deleteBulkForm.modal.open
    /\ deleteBulkForm.confirm = "none"
    /\ \E n \in 0..MaxObjects :
         deleteBulkForm' = afterAll(
            [deleteBulkForm EXCEPT
                !.objects = n,
                !.deletes = [ i \in 1..n |-> "pending" ],
                !.confirm = "pending"],
            "pending")
    /\ UNCHANGED besidesDeleteBulkForm

\* One delete resolves or rejects.
DeleteSettles ==
    /\ \E i \in DOMAIN deleteBulkForm.deletes, outcome \in { "fulfilled", "rejected" } :
         /\ deleteBulkForm.deletes[i] = "pending"
         /\ deleteBulkForm' = afterAll(
                [deleteBulkForm EXCEPT !.deletes[i] = outcome],
                promiseAll(deleteBulkForm.deletes))
    /\ UNCHANGED besidesDeleteBulkForm

\* parseAPIResponseError resolved: the rest of the .catch callback.
ErrorParsed ==
    /\ deleteBulkForm.parsing
    /\ deleteBulkForm' = [deleteBulkForm EXCEPT
          !.parsing = FALSE,
          !.messages = Append(@, "error"),
          !.confirm = "fulfilled"]
    /\ UNCHANGED besidesDeleteBulkForm

\* The running transition of the form's dialog ends.
BulkTransitionEnd ==
    /\ deleteBulkForm.modal.transition
    /\ deleteBulkForm' = [deleteBulkForm EXCEPT
          !.modal = dispatchTransitionEnd([@ EXCEPT !.transition = FALSE])]
    /\ UNCHANGED besidesDeleteBulkForm

InitDeleteBulkForm == Init /\ NotLinting

NextDeleteBulkForm ==
    \/ BulkConnected
    \/ Confirm
    \/ DeleteSettles
    \/ ErrorParsed
    \/ BulkTransitionEnd

SpecDeleteBulkForm == InitDeleteBulkForm /\ [][NextDeleteBulkForm]_vars

----------------------------------------------------------------------------
\* FormsModal

MaxConfirms == 3

\* A settled #confirm: what its form.submit() did and how the promise
\* #confirm returned ended.
Settled(submit, confirm) == [submit |-> submit, confirm |-> confirm]

\* The .then callback of #confirm.
submitted(modal) ==
    IF modal.closeAfterSuccessfulSubmit
    THEN [modal EXCEPT
            !.modal = [close(@) EXCEPT !.history = Append(@, "close")],
            !.resets = @ + 1,
            !.refreshes = @ + 1]
    ELSE modal

\* Variant of the chain with a second .then in place of .finally.
submitSettled_thenOnly(modal, outcome) ==
    IF outcome = "fulfilled"
    THEN [submitted(modal) EXCEPT
            !.loading = FALSE,
            !.settled = Append(@, Settled(outcome, "fulfilled"))]
    ELSE [modal EXCEPT !.settled = Append(@, Settled(outcome, "rejected"))]

\* formPromise.then(...).finally(...): the .then callback on success, the
\* .finally callback in both cases; the returned promise ends as
\* formPromise did.
submitSettled(modal, outcome) ==
    IF outcome = "fulfilled"
    THEN [submitted(modal) EXCEPT
            !.loading = FALSE,
            !.settled = Append(@, Settled(outcome, "fulfilled"))]
    ELSE [modal EXCEPT
            !.loading = FALSE,
            !.settled = Append(@, Settled(outcome, "rejected"))]

\* #confirm() up to its return: no form throws, an invalid form returns,
\* a valid form is submitted.
confirm(modal, form) ==
    LET invoked == [modal EXCEPT !.confirms = Append(@, form)]
    IN  IF form = "none"
        THEN [invoked EXCEPT !.settled = Append(@, Settled("none", "rejected"))]
        ELSE IF form = "invalid"
        THEN [invoked EXCEPT
                !.loading = FALSE,
                !.settled = Append(@, Settled("none", "fulfilled"))]
        ELSE [invoked EXCEPT
                !.loading = TRUE,
                !.submits = @ + 1,
                !.pending = @ + 1]

\* connectedCallback() of the modal.
FormsModalConnected ==
    /\ ~formsModal.modal.attached
    /\ formsModal' = [formsModal EXCEPT
          !.modal = [show([@ EXCEPT !.attached = TRUE])
                        EXCEPT !.history = Append(@, "show")]]
    /\ UNCHANGED besidesFormsModal

\* The close-after-submit attribute is changed.
SetCloseAfterSubmit ==
    /\ formsModal' = [formsModal EXCEPT !.closeAfterSuccessfulSubmit = ~@]
    /\ UNCHANGED besidesFormsModal

\* Click on the submit button of the open modal.
ConfirmSubmit ==
    /\ formsModal.modal.open
    /\ Len(formsModal.confirms) < MaxConfirms
    /\ \E form \in { "none", "invalid", "valid" } :
         formsModal' = confirm(formsModal, form)
    /\ UNCHANGED besidesFormsModal

\* A pending form.submit() resolves or rejects.
SubmitSettles ==
    /\ formsModal.pending > 0
    /\ \E outcome \in { "fulfilled", "rejected" } :
         formsModal' = submitSettled([formsModal EXCEPT !.pending = @ - 1], outcome)
    /\ UNCHANGED besidesFormsModal

\* The running transition of the modal's dialog ends.
FormsModalTransitionEnd ==
    /\ formsModal.modal.transition
    /\ formsModal' = [formsModal EXCEPT
          !.modal = dispatchTransitionEnd([@ EXCEPT !.transition = FALSE])]
    /\ UNCHANGED besidesFormsModal

InitFormsModal == Init /\ NotLinting

NextFormsModal ==
    \/ FormsModalConnected
    \/ SetCloseAfterSubmit
    \/ ConfirmSubmit
    \/ SubmitSettles
    \/ FormsModalTransitionEnd

SpecFormsModal == InitFormsModal /\ [][NextFormsModal]_vars

----------------------------------------------------------------------------
\* Properties of a run

Range(seq) == { seq[i] : i \in DOMAIN seq }

SnapshotRead(snapshot) == DOMAIN snapshot.package # {}

Exited == exit # <<>>

Logged(level, message) == [level |-> level, message |-> message] \in Range(log)

DirtyChecks == { "package.json clean", "package-lock.json clean" }
ModeGatedChecks == DirtyChecks \cup { "package-lock.json in sync" }

\* The guard recorded or raised nothing.
GuardPassed == \A i \in DOMAIN evaluated :
                  evaluated[i].check \in DirtyChecks => evaluated[i].ok

\* Some mode-gated check failed.
CheckFailed == \E i \in DOMAIN evaluated :
                  evaluated[i].check \in ModeGatedChecks /\ ~evaluated[i].ok

DriftFound == Evaluated("package-lock.json in sync", FALSE) \in Range(evaluated)

\* A failure with the given message was produced: collected as an issue or
\* thrown.
FailureProduced(message) ==
    message \in Range(issues) \/ (error # NoError /\ error.message = message)

DirtyMessage(file) ==
    IF file = "package" THEN PackageDirtyMessage(packageJSONPath)
    ELSE LockfileDirtyMessage(packageLockPath)

\* The manifest read after regeneration differs from the one read before.
ManifestMutated ==
    SnapshotRead(actual) /\ ~isDeepStrictEqual(actual.package, expected.package)

\* The changed lines of the two lockfile snapshots that survive the filter.
LockfileDriftLines ==
    driftLines(createErrDiff(actual.lockfile, expected.lockfile, OutOfSyncMessage, FALSE))

\* Manifest unchanged, the lockfile snapshots differ, every changed line
\* contains `peer:`.
PeerOnlyDifference ==
    /\ SnapshotRead(actual)
    /\ isDeepStrictEqual(actual.package, expected.package)
    /\ ~isDeepStrictEqual(actual.lockfile, expected.lockfile)
    /\ LockfileDriftLines = <<>>

\* Manifest unchanged, the lockfile snapshots differ in a line without
\* `peer:`.
RealDrift ==
    /\ SnapshotRead(actual)
    /\ isDeepStrictEqual(actual.package, expected.package)
    /\ ~isDeepStrictEqual(actual.lockfile, expected.lockfile)
    /\ LockfileDriftLines # <<>>

\* C1: a manifest that regeneration changed always ends the run in the
\* fatal outcome, exit code 1, in strict and in warn mode; the run never
\* reaches the reporter, never exits 0 or 2, and the mismatch is never
\* collected as an issue.
C1_ManifestMutationIsFatal ==
    ManifestMutated =>
        /\ pc \in { "Comparing", "Failed" }
        /\ exit \in { <<>>, <<1>> }
        /\ pc = "Failed" =>
              /\ exit = <<1>>
              /\ error.name = "AssertionError"
              /\ error.message[1] = ManifestModifiedMessage(packageJSONPath)[1]
        /\ ManifestModifiedMessage(packageJSONPath) \notin Range(issues)

C1_Witness ==
    /\ ManifestMutated
    /\ warn
    /\ pc = "Failed"
    /\ exit = <<1>>

\* C2: lockfile snapshots whose only changed lines contain `peer:` are no
\* drift in either mode: nothing is thrown, no issue is recorded, the
\* informational warning is logged and, the guard having passed, the run
\* ends in sync with exit code 0.
C2_NoiseToleratedInBothModes ==
    (PeerOnlyDifference /\ pc \in { "Reporting", "Done", "Failed" }) =>
        /\ pc # "Failed"
        /\ error = NoError
        /\ OutOfSyncMessage \notin Range(issues)
        /\ Logged("warn", Message(
              "Optional peer dependency differences detected. Run npm install to update the lockfile.",
              <<>>))
        /\ (pc = "Done" /\ GuardPassed) =>
              /\ exit = <<0>>
              /\ Logged("info", Message("Lockfile is in sync.", <<>>))

\* C3: in warn mode with a passed guard, a lockfile that differs in a line
\* without `peer:` yields exactly one issue, the drift message carrying the
\* filtered changed lines, and exit code 2.
C3_WarnDriftIssueCarriesLines ==
    (warn /\ RealDrift /\ GuardPassed /\ pc = "Done") =>
        /\ Len(issues) = 1
        /\ issues[1] = DriftMessage(LockfileDriftLines)
        /\ exit = <<EXIT_DRIFT>>

C5_WarnExitTwoMeansDrift ==
    (warn /\ pc = "Done") =>
        IF DriftFound THEN exit = <<EXIT_DRIFT>> ELSE exit = <<0>>

\* C6: with --warn every run that hits no unexpected error exits 0.
C6_WarnExitsZero ==
    (warn /\ pc = "Done") => exit = <<0>>

\* C7 as stated: every run that has read its files invokes the
\* regeneration exactly once.
C7_ExactlyOneRegeneration ==
    (SnapshotRead(expected) /\ pc \in { "Done", "Failed" }) => calls["npmInstall"] = 1

\* C7 amended: the regeneration is invoked at most once; every run that
\* gets past the regeneration step has invoked it exactly once; a run that
\* has read its files and ends without invoking it was aborted by a
\* strict-mode dirty check or by the failing npm version query.
C7_AtMostOneRegeneration ==
    /\ calls["npmInstall"] <= 1
    /\ pc \in { "ReadingActual", "Comparing", "Reporting", "Done" } =>
          calls["npmInstall"] = 1
    /\ (SnapshotRead(expected) /\ pc = "Failed" /\ calls["npmInstall"] = 0) =>
          \/ /\ ~warn
             /\ ~skipGit
             /\ \E file \in { "package", "lockfile" } :
                   /\ gitTree[file] = "dirty"
                   /\ error = AssertionError(DirtyMessage(file))
          \/ /\ calls["npmVersion"] = 1
             /\ error = Error(Message("npm --version failed", <<>>))

C7_Witness ==
    /\ SnapshotRead(expected)
    /\ ~warn
    /\ pc = "Failed"
    /\ calls["npmInstall"] = 0
    /\ error = AssertionError(PackageDirtyMessage(packageJSONPath))

\* C8: in strict mode a failed check is the last thing the run evaluates:
\* the run is aborted, the issue list is empty, and after a failed dirty
\* check there is no lockfile dirty check, no npm call and no second
\* snapshot read.
C8_StrictFailsFast ==
    ~warn =>
        /\ issues = <<>>
        /\ \A i \in DOMAIN evaluated :
              ~evaluated[i].ok =>
                  /\ i = Len(evaluated)
                  /\ pc = "Failed"
                  /\ error # NoError
                  /\ evaluated[i].check \in DirtyChecks =>
                        /\ calls["npmVersion"] = 0
                        /\ calls["npmInstall"] = 0
                        /\ calls["loadJSON"] = 2
                        /\ ~SnapshotRead(actual)

C8_Witness ==
    /\ ~warn
    /\ gitTree = [package |-> "dirty", lockfile |-> "dirty"]
    /\ evaluated = << Evaluated("package.json clean", FALSE) >>
    /\ pc = "Failed"

\* Both tracked files dirty, git available, guard not skipped, manifest
\* unchanged and the lockfile changed by the regeneration.
AllChecksFail ==
    /\ ~skipGit
    /\ gitTree = [package |-> "dirty", lockfile |-> "dirty"]
    /\ SnapshotRead(actual)
    /\ isDeepStrictEqual(actual.package, expected.package)
    /\ ~isDeepStrictEqual(actual.lockfile, expected.lockfile)

IssueLinesLogged ==
    SelectSeq(log, LAMBDA entry :
        /\ entry.level = "warn"
        /\ entry.message # <<>>
        /\ startsWith(entry.message[1], <<"  -">>))

\* C9: in warn mode no check aborts the run; with both files dirty and the
\* lockfile drifted the run regenerates, compares, returns the three
\* issues in check order, and has logged each of them, in order, when it
\* exits.
C9_WarnCollectsAllIssues ==
    warn =>
        /\ pc = "Failed" =>
              /\ \A file \in { "package", "lockfile" } :
                    error # AssertionError(DirtyMessage(file))
              /\ error.message[1] # <<"Lockfile drift detected:">>
        /\ (AllChecksFail /\ pc \in { "Reporting", "Done" }) =>
              /\ calls["npmInstall"] = 1
              /\ issues = << PackageDirtyMessage(packageJSONPath),
                             LockfileDirtyMessage(packageLockPath),
                             OutOfSyncMessage >>
        /\ (AllChecksFail /\ pc = "Done") =>
              /\ Exited
              /\ Len(IssueLinesLogged) = Len(issues)
              /\ \A i \in DOMAIN issues :
                    IssueLinesLogged[i] =
                        [level |-> "warn", message |-> IssueLine(issues[i])]

C9_Witness ==
    /\ warn
    /\ AllChecksFail
    /\ pc = "Done"
    /\ Len(issues) = 3

GuardActed == ~skipGit /\ calls["gitStatus"] = 2

\* C10 as stated: each path is decided on its own; a dirty path for which
\* git is available produces a failure, a path for which git is
\* unavailable produces none.
C10_DirtyCheckPerPath ==
    GuardActed =>
        \A file \in { "package", "lockfile" } :
            /\ gitTree[file] = "dirty" => FailureProduced(DirtyMessage(file))
            /\ gitTree[file] = "unavailable" => ~FailureProduced(DirtyMessage(file))

\* C10 amended: the dirty checks run only when git is available for both
\* paths; then a dirty package.json produces a failure, and a dirty
\* lockfile produces one unless strict mode already aborted on
\* package.json; when git is unavailable for either path both checks are
\* skipped with a warning and no failure is produced for any path.
C10_DirtyCheckNeedsBothAvailable ==
    GuardActed =>
        LET bothAvailable == \A file \in { "package", "lockfile" } :
                                gitTree[file] # "unavailable"
        IN  /\ bothAvailable =>
                 /\ gitTree["package"] = "dirty" =>
                       FailureProduced(DirtyMessage("package"))
                 /\ (gitTree["lockfile"] = "dirty"
                       /\ (warn \/ gitTree["package"] = "clean")) =>
                       FailureProduced(DirtyMessage("lockfile"))
            /\ ~bothAvailable =>
                 /\ \A file \in { "package", "lockfile" } :
                       ~FailureProduced(DirtyMessage(file))
                 /\ \A i \in DOMAIN evaluated : evaluated[i].check \notin DirtyChecks
                 /\ Logged("warn", Message(
                       "Git is not available; skipping uncommitted change detection.",
                       <<>>))
            /\ \A file \in { "package", "lockfile" } :
                  FailureProduced(DirtyMessage(file)) => gitTree[file] = "dirty"

C10_Witness ==
    /\ GuardActed
    /\ gitTree = [package |-> "dirty", lockfile |-> "unavailable"]
    /\ pc = "Regenerating"
    /\ issues = <<>>

PastGuard == pc \in { "Regenerating", "ReadingActual", "Comparing", "Reporting", "Done" }

SkippedGuardOnlyLogs ==
    (skipGit /\ pc = "Guarding") =>
        /\ pc' = "Regenerating"
        /\ log' = warning(log, Message("Skipping git status check", <<>>))
        /\ UNCHANGED << issues, evaluated, calls, error, exit, disk >>

\* C11: with --skip-git git is never queried, no dirty check is evaluated
\* and no uncommitted-changes issue or error is produced, whatever the
\* mode and the working tree; the guard step only writes one log line.
C11_SkipGitSkipsGuard ==
    /\ [](skipGit =>
            /\ calls["gitStatus"] = 0
            /\ \A file \in { "package", "lockfile" } :
                  ~FailureProduced(DirtyMessage(file))
            /\ \A i \in DOMAIN evaluated : evaluated[i].check \notin DirtyChecks
            /\ PastGuard => Logged("warn", Message("Skipping git status check", <<>>)))
    /\ [][SkippedGuardOnlyLogs]_vars

C11_Witness ==
    /\ skipGit
    /\ ~warn
    /\ gitTree = [package |-> "dirty", lockfile |-> "dirty"]
    /\ pc = "Done"
    /\ exit = <<0>>

TreeClean == gitTree = [package |-> "clean", lockfile |-> "clean"]

FilesKeptAfterRegeneration ==
    pc \in { "ReadingActual", "Comparing", "Reporting", "Done" } => disk' = disk

\* C12: when the regeneration leaves both files as they were and the guard
\* is skipped or the tree is clean, the run raises nothing, collects
\* nothing and ends in sync with exit code 0, in either mode; no later
\* step touches the files, and the same holds for the invocation that
\* follows it.
C12_InSyncIsIdempotent ==
    /\ []((SnapshotRead(actual) /\ disk = initial /\ (skipGit \/ TreeClean)) =>
            /\ pc # "Failed"
            /\ error = NoError
            /\ issues = <<>>
            /\ pc = "Done" =>
                  /\ exit = <<0>>
                  /\ Logged("info", Message("Lockfile is in sync.", <<>>)))
    /\ [](\A i \in DOMAIN finished : finished[i] = 0)
    /\ [][FilesKeptAfterRegeneration]_vars

C12_Witness ==
    /\ Len(finished) = 1
    /\ warn
    /\ ~skipGit
    /\ TreeClean
    /\ pc = "Done"
    /\ exit = <<0>>
    /\ disk = initial

PhaseOrder == << "Idle", "Resolving", "ReadingExpected", "Guarding",
                 "Regenerating", "ReadingActual", "Comparing", "Reporting",
                 "Done" >>

PhaseIndex(phase) == CHOOSE i \in DOMAIN PhaseOrder : PhaseOrder[i] = phase

\* A step either enters the next phase of the order or, from a phase of
\* run() itself, the failed outcome; a step never stays in its phase.
PhaseStep ==
    /\ pc' # pc
    /\ pc \in Range(PhaseOrder) \ { "Done" }
    /\ \/ pc' = PhaseOrder[PhaseIndex(pc) + 1]
       \/ /\ pc' = "Failed"
          /\ pc \notin { "Idle", "Reporting" }

ComparisonMade ==
    \E i \in DOMAIN evaluated :
        evaluated[i].check \in { "package.json unmodified", "package-lock.json in sync" }

\* C13: the run moves through Idle, Resolving, Reading (expected),
\* Guarding, Regenerating, Reading (actual), Comparing, Reporting in that
\* order and ends in Done or Failed; no phase is entered twice; the
\* expected snapshot is read before the regeneration, the actual snapshot
\* only after it, and the comparison only after the actual snapshot of
\* both files is read.
C13_PhasesInFixedOrder ==
    /\ [][PhaseStep]_vars
    /\ [](pc \in Range(PhaseOrder) \cup { "Failed" })
    /\ [](Exited <=> pc \in { "Done", "Failed" })
    /\ [](calls["npmVersion"] > 0 => SnapshotRead(expected))
    /\ [](SnapshotRead(expected) => calls["loadJSON"] >= 2)
    /\ [](SnapshotRead(actual) =>
            /\ calls["npmInstall"] = 1
            /\ Logged("info", Message("npm install complete.", <<>>))
            /\ calls["loadJSON"] = 4)
    /\ [](pc \in { "Idle", "Resolving", "ReadingExpected", "Guarding", "Regenerating" } =>
            calls["npmInstall"] = 0 /\ ~SnapshotRead(actual))
    /\ [](pc \in { "Comparing", "Reporting", "Done" } =>
            SnapshotRead(expected) /\ SnapshotRead(actual))
    /\ [](ComparisonMade => SnapshotRead(actual))

C13_Witness ==
    /\ pc = "Done"
    /\ SnapshotRead(expected)
    /\ SnapshotRead(actual)
    /\ ComparisonMade
    /\ calls["npmInstall"] = 1

NoCalls == [ c \in CallNames |-> 0 ]

Failure(message) == error # NoError /\ error.message = message

\* The external calls a run has made when the given call is the last one
\* it attempts before the guard.
CallsUpTo(name) ==
    [ c \in CallNames |->
        IF c = "findPackageJSON" THEN 1
        ELSE IF c = "findNPMPackage" /\ name # "findPackageJSON" THEN 1
        ELSE 0 ]

\* C14: no step is retried.  A failure to locate the manifest or the
\* lockfile, to load a document, to query the npm version or to run the
\* lock-only install ends the run in Failed with exit code 1 in both
\* modes, no later step is executed, and every external call is attempted
\* at most once per run (once per file and snapshot for loads and status
\* queries); a failed corepack probe alone does not fail the run.
C14_NoRetryFailureIsFatal ==
    /\ [][pc \notin { "Done", "Failed" }]_vars
    /\ [](\A c \in CallNames \ { "loadJSON", "gitStatus" } : calls[c] <= 1)
    /\ [](calls["loadJSON"] <= 4 /\ calls["gitStatus"] \in { 0, 2 })
    /\ [](error # NoError =>
            /\ pc = "Failed"
            /\ exit = <<1>>
            /\ log[Len(log)] = [level |-> "error", message |-> error.message])
    /\ [](Failure(Message(
              "Could not find package.json in the current directory or any parent directories",
              <<>>)) =>
            calls = CallsUpTo("findPackageJSON") /\ packageJSONPath = <<>>)
    /\ [](Failure(Message("Could not find package-lock.json", <<>>)) =>
            calls = CallsUpTo("findNPMPackage") /\ packageLockPath = <<>>)
    /\ [](Failure(Message("Could not load", packageLockPath)) =>
            /\ calls["loadJSON"] \in { 1, 3 }
            /\ calls["loadJSON"] = 1 =>
                  ~SnapshotRead(expected) /\ calls["gitStatus"] = 0 /\ calls["npmVersion"] = 0
            /\ ~SnapshotRead(actual) /\ ~ComparisonMade)
    /\ [](Failure(Message("Could not load", packageJSONPath)) =>
            /\ calls["loadJSON"] \in { 2, 4 }
            /\ calls["loadJSON"] = 2 =>
                  ~SnapshotRead(expected) /\ calls["gitStatus"] = 0 /\ calls["npmVersion"] = 0
            /\ ~SnapshotRead(actual) /\ ~ComparisonMade)
    /\ [](Failure(Message("npm --version failed", <<>>)) =>
            /\ calls["npmVersion"] = 1 /\ calls["npmInstall"] = 0
            /\ calls["loadJSON"] = 2 /\ ~ComparisonMade /\ disk = initial)
    /\ [](Failure(Message("npm install failed", <<>>)) =>
            /\ calls["npmVersion"] = 1 /\ calls["npmInstall"] = 1
            /\ calls["loadJSON"] = 2 /\ ~ComparisonMade /\ disk = initial)
    /\ [](calls["corepack"] = 1 /\ ~useCorepack /\ pc # "Failed" => error = NoError)

\* Warn mode, the corepack probe failed and the run went on, then the
\* lock-only install failed.
C14_Witness ==
    /\ warn
    /\ calls["corepack"] = 1
    /\ Logged("info", Message("corepack", <<"disabled">>))
    /\ Failure(Message("npm install failed", <<>>))
    /\ pc = "Failed"
    /\ exit = <<1>>

\* A failed corepack probe does not keep the run from ending in Done.
CorepackFailureSurvived ==
    /\ calls["corepack"] = 1
    /\ ~useCorepack
    /\ pc = "Done"

IssuesHeaderLogged ==
    \E i \in DOMAIN log :
        /\ log[i].level = "warn"
        /\ log[i].message[1][1] = "issue(s) detected:"

\* C15: the issue list is non-empty only in warn mode, so the branch of
\* the reporter that lists issues is taken only under --warn.
C15_IssuesOnlyInWarnMode ==
    /\ issues # <<>> => warn
    /\ IssuesHeaderLogged => warn /\ issues # <<>> /\ pc = "Done"
    /\ (pc = "Done" /\ ~warn) => Logged("info", Message("Lockfile is in sync.", <<>>))

C15_Witness ==
    /\ warn
    /\ pc = "Done"
    /\ Len(issues) = 2
    /\ IssuesHeaderLogged

\* C16: every issue detected during the run is in the log when the
\* process has exited, whether it ended normally or with a fatal error.
C16_EveryIssueLoggedBeforeExit ==
    Exited => \A i \in DOMAIN issues : Logged("warn", IssueLine(issues[i]))

PathsResolved == packageJSONPath # <<>> /\ packageLockPath # <<>>

InDifferentDirectories ==
    SubSeq(packageLockPath, 1, Len(packageLockPath) - 1) #
        SubSeq(packageJSONPath, 1, Len(packageJSONPath) - 1)

\* The paths and the workspace flag are set in one step, before the
\* regeneration, and no later step changes them.
WorkspaceFlagSetOnce ==
    /\ PathsResolved => UNCHANGED paths
    /\ paths' # paths =>
          /\ pc = "Resolving"
          /\ calls["npmInstall"] = 0
          /\ disk = initial
          /\ disk' = disk

\* C17: the workspace flag is computed once, before any mutation, as
\* (directory of the resolved lockfile # directory of the found manifest)
\* and never changes afterwards; for the manifest pkgs/foo/package.json
\* with the lockfile at the repository root it is true, and the lockfile
\* path is logged with the workspace-root mark exactly then.
C17_WorkspaceFlagComputedOnce ==
    /\ [][WorkspaceFlagSetOnce]_vars
    /\ [](PathsResolved => (isWorkspace <=> InDifferentDirectories))
    /\ []((/\ packageJSONPath = << "repo", "pkgs", "foo", "package.json" >>
           /\ packageLockPath = << "repo", "package-lock.json" >>) => isWorkspace)
    /\ [](SnapshotRead(expected) =>
            Logged("info", Message("package-lock.json:", packageLockPath \o
                (IF InDifferentDirectories THEN <<"(workspace root)">> ELSE <<>>))))

C17_Witness ==
    /\ packageJSONPath = << "repo", "pkgs", "foo", "package.json" >>
    /\ packageLockPath = << "repo", "package-lock.json" >>
    /\ isWorkspace
    /\ disk # initial
    /\ pc = "Done"

\* Keys whose entry differs between the two lockfile snapshots: each is a
\* changed line of the diff.
ChangedKeys ==
    { k \in DOMAIN actual.lockfile \cup DOMAIN expected.lockfile :
        \/ k \notin DOMAIN actual.lockfile
        \/ k \notin DOMAIN expected.lockfile
        \/ actual.lockfile[k] # expected.lockfile[k] }

\* Strict mode, both snapshots read, the manifest unchanged, the lockfiles
\* unequal, and the comparison made.
StrictUnequalLockfiles ==
    /\ ~warn
    /\ SnapshotRead(actual)
    /\ DOMAIN actual.package = DOMAIN expected.package
    /\ \A k \in DOMAIN actual.package : actual.package[k] = expected.package[k]
    /\ ChangedKeys # {}
    /\ pc \in { "Reporting", "Done", "Failed" }

PeerWarning ==
    Message("Optional peer dependency differences detected. Run npm install to update the lockfile.",
            <<>>)

\* C18: in strict mode with an unchanged manifest and unequal lockfiles
\* the run fails with `Lockfile drift detected` exactly when some changed
\* line of the diff does not contain `peer:`; when every changed line
\* contains it the difference is tolerated: a warning is logged, no issue
\* is recorded and the run ends in sync with exit code 0.
C18_StrictDriftIffNonPeerLine ==
    StrictUnequalLockfiles =>
        IF \E k \in ChangedKeys : k # "peer"
        THEN /\ pc = "Failed"
             /\ error.name = "Error"
             /\ Head(error.message) = <<"Lockfile drift detected:">>
             /\ Len(error.message) > 1
             /\ \A i \in 2..Len(error.message) :
                    /\ error.message[i][1] \in { "+", "-" }
                    /\ error.message[i][Len(error.message[i]) - 2] \in ChangedKeys \ { "peer" }
             /\ ~Logged("warn", PeerWarning)
        ELSE /\ pc \in { "Reporting", "Done" }
             /\ error = NoError
             /\ issues = <<>>
             /\ Logged("warn", PeerWarning)
             /\ pc = "Done" =>
                    /\ exit = <<0>>
                    /\ Logged("info", Message("Lockfile is in sync.", <<>>))

\* Strict mode, the regeneration only added `peer: true`: tolerated.
C18_Witness ==
    /\ StrictUnequalLockfiles
    /\ ChangedKeys = { "peer" }
    /\ pc = "Done"
    /\ exit = <<0>>

\* Strict mode, the regeneration changed a resolved version: drift.
StrictDriftRaised ==
    /\ StrictUnequalLockfiles
    /\ "bar" \in ChangedKeys
    /\ pc = "Failed"

\* Only the regeneration step changes a file on disk.
OnlyRegenerationWrites == disk' # disk => pc = "Regenerating"

\* C19: the checker never writes a file: every step other than the
\* regeneration leaves the manifest and the lockfile on disk unchanged,
\* and when the run ends in Done the lockfile is the only file whose
\* content may differ from its initial content.
C19_OnlyLockfileMayDiffer ==
    /\ [][OnlyRegenerationWrites]_vars
    /\ [](pc = "Done" => disk.package = initial.package)

\* The part of C19 that rests on the checker's own steps.
CheckerNeverWrites == [][OnlyRegenerationWrites]_vars

Reminder ==
    Message("The lockfile on disk has been regenerated. Review and commit the changes.",
            <<>>)

\* The last entries of the log are the issues, in the order collected,
\* followed by the reminder.
IssuesThenReminderLogged ==
    /\ Len(log) > Len(issues)
    /\ log[Len(log)] = [level |-> "warn", message |-> Reminder]
    /\ \A i \in DOMAIN issues :
          log[Len(log) - Len(issues) - 1 + i] =
              [level |-> "warn", message |-> IssueLine(issues[i])]

\* C20: whenever a run exits with the drift code 2, the regeneration
\* completed successfully earlier in the run, the manifest was found
\* unchanged by it, and every collected issue and then the reminder that
\* the lockfile on disk has been regenerated were logged before the exit.
C20_DriftExitAfterRegeneration ==
    exit = <<2>> =>
        /\ pc = "Done"
        /\ calls["npmInstall"] = 1
        /\ Logged("info", Message("npm install complete.", <<>>))
        /\ SnapshotRead(expected)
        /\ SnapshotRead(actual)
        /\ actual.package = expected.package
        /\ Evaluated("package.json unmodified", TRUE) \in Range(evaluated)
        /\ error = NoError
        /\ issues # <<>>
        /\ IssuesThenReminderLogged

C20_Witness ==
    /\ exit = <<2>>
    /\ Len(issues) = 3
    /\ disk.lockfile # initial.lockfile

----------------------------------------------------------------------------
\* Properties of a ModelForm

\* Only pk assignments were made (no refresh event, no reset) and no
\* promise is pending.
NoLoadInFlight ==
    /\ modelForm.assignments > 0
    /\ ~modelForm.touched
    /\ modelForm.promises = <<>>

\* C21: for any sequence of instancePk assignments whose load() and
\* loadInstance() promises all resolve, once no load is in flight
\* `instance` is the result of loadInstance for the most recently assigned
\* instancePk.
C21_InstanceTracksCurrentPk ==
    NoLoadInFlight => modelForm.instance = <<modelForm.instancePk>>

\* The first update found a pk, and nothing but pk assignments happened.
InitialSetupWithPk ==
    /\ modelForm.hasUpdated
    /\ modelForm.initialLoad
    /\ ~modelForm.touched

RendersForm ==
    (truthy(modelForm.instancePk) => modelForm.instance # <<>>) /\ modelForm.initialDataLoad

\* The form ends up rendering its content after an initial setup with a
\* pk.
InitialSetupRendersForm ==
    [](InitialSetupWithPk => <>(RendersForm \/ modelForm.touched))

\* load() is invoked once when the pk was assigned once before the first
\* update.
InitialSetupLoadsOnce ==
    [](InitialSetupWithPk /\ modelForm.assignments = 1 => modelForm.loadCalls = 1)

\* C22: a ModelForm given an instancePk before its first update, whose
\* load() and loadInstance(pk) resolve, eventually stops rendering the
\* loading placeholder and renders its form content, and load() is not
\* invoked a second time during this initial setup.
C22_InitialSetupCompletes ==
    InitialSetupRendersForm /\ InitialSetupLoadsOnce

----------------------------------------------------------------------------
\* Properties of an AKModal

\* C23: for any sequence of show() and close() calls on an AKModal
\* attached to a dialog, once every pending transitionend listener has
\* fired the dialog is open exactly when the most recent call was show().
C23_DialogFollowsLastCall ==
    (/\ akModal.attached
     /\ akModal.history # <<>>
     /\ akModal.listeners = <<>>)
        => (akModal.open <=> akModal.history[Len(akModal.history)] = "show")

----------------------------------------------------------------------------
\* Properties of a DeleteBulkForm

Confirmed == deleteBulkForm.confirm # "none"

EveryDeleteResolved ==
    \A i \in DOMAIN deleteBulkForm.deletes : deleteBulkForm.deletes[i] = "fulfilled"

SomeDeleteRejected ==
    \E i \in DOMAIN deleteBulkForm.deletes : deleteBulkForm.deletes[i] = "rejected"

CloseCalled ==
    \E i \in DOMAIN deleteBulkForm.modal.history :
        deleteBulkForm.modal.history[i] = "close"

SuccessShown ==
    \E i \in DOMAIN deleteBulkForm.messages : deleteBulkForm.messages[i] = "success"

\* C24: confirm starts one delete per selected object; it closes the
\* modal, shows the success message and dispatches the refresh event
\* exactly when every delete resolved; when a delete rejects the modal
\* stays open, no refresh event is dispatched and an error message is
\* shown, even if other deletes of the batch succeeded; the promise
\* confirm returns never rejects.
C24_ConfirmAllOrError ==
    /\ deleteBulkForm.confirm # "rejected"
    /\ Len(deleteBulkForm.messages) <= 1
    /\ Confirmed =>
        /\ Len(deleteBulkForm.deletes) = deleteBulkForm.objects
        /\ SuccessShown <=> EveryDeleteResolved
        /\ CloseCalled <=> EveryDeleteResolved
        /\ deleteBulkForm.refreshes = (IF EveryDeleteResolved THEN 1 ELSE 0)
        /\ EveryDeleteResolved => deleteBulkForm.confirm = "fulfilled"
        /\ SomeDeleteRejected =>
              /\ deleteBulkForm.modal.open
              /\ deleteBulkForm.modal.fadeIn
              /\ deleteBulkForm.parsing \/ deleteBulkForm.messages = <<"error">>
              /\ deleteBulkForm.confirm = "fulfilled" <=> ~deleteBulkForm.parsing
        /\ (~SomeDeleteRejected /\ ~EveryDeleteResolved) =>
              deleteBulkForm.confirm = "pending" /\ deleteBulkForm.messages = <<>>
    /\ ~Confirmed => deleteBulkForm.messages = <<>> /\ deleteBulkForm.refreshes = 0

\* One delete of the batch rejected, another succeeded: error shown, the
\* modal still open, confirm settled.
C24_Witness ==
    /\ deleteBulkForm.confirm = "fulfilled"
    /\ SomeDeleteRejected
    /\ \E i \in DOMAIN deleteBulkForm.deletes : deleteBulkForm.deletes[i] = "fulfilled"
    /\ deleteBulkForm.messages = <<"error">>
    /\ deleteBulkForm.modal.open

\* Every delete of a batch resolved: the modal is closing.
BatchDeleted ==
    /\ deleteBulkForm.objects = MaxObjects
    /\ EveryDeleteResolved
    /\ deleteBulkForm.messages = <<"success">>
    /\ ~deleteBulkForm.modal.open

----------------------------------------------------------------------------
\* Properties of a FormsModal

Count(seq, value) == Cardinality({ i \in DOMAIN seq : seq[i] = value })

Last(seq) == seq[Len(seq)]

\* This step is a #confirm() call.
ConfirmCalled == Len(formsModal'.confirms) = Len(formsModal.confirms) + 1

\* The promise of a #confirm() settles in this step.
ConfirmSettled == Len(formsModal'.settled) = Len(formsModal.settled) + 1

\* This step closes the modal, resets the form or dispatches the refresh
\* event.
SubmitEffects ==
    \/ Count(formsModal'.modal.history, "close") # Count(formsModal.modal.history, "close")
    \/ formsModal'.resets # formsModal.resets
    \/ formsModal'.refreshes # formsModal.refreshes

FormsModalStep ==
    /\ SubmitEffects =>
          /\ formsModal.pending > 0
          /\ formsModal'.pending = formsModal.pending - 1
          /\ ConfirmSettled
          /\ Last(formsModal'.settled) = Settled("fulfilled", "fulfilled")
          /\ formsModal.closeAfterSuccessfulSubmit
          /\ Count(formsModal'.modal.history, "close") =
                Count(formsModal.modal.history, "close") + 1
          /\ ~formsModal'.modal.fadeIn
          /\ formsModal'.resets = formsModal.resets + 1
          /\ formsModal'.refreshes = formsModal.refreshes + 1
    /\ (ConfirmSettled /\ Last(formsModal'.settled).submit = "fulfilled"
            /\ formsModal.closeAfterSuccessfulSubmit) => SubmitEffects
    /\ formsModal'.submits # formsModal.submits =>
          /\ ConfirmCalled
          /\ Last(formsModal'.confirms) = "valid"
          /\ formsModal'.submits = formsModal.submits + 1
    /\ (ConfirmCalled /\ Last(formsModal'.confirms) = "invalid") =>
          /\ formsModal'.submits = formsModal.submits
          /\ formsModal'.pending = formsModal.pending
          /\ ConfirmSettled
          /\ Last(formsModal'.settled) = Settled("none", "fulfilled")
    /\ (ConfirmSettled /\ Last(formsModal'.settled).submit = "rejected") =>
          /\ formsModal'.modal = formsModal.modal
          /\ formsModal'.refreshes = formsModal.refreshes
          /\ formsModal'.resets = formsModal.resets
          /\ Last(formsModal'.settled).confirm = "rejected"
    /\ (ConfirmSettled /\ Last(formsModal'.settled) # Settled("none", "rejected")) =>
          ~formsModal'.loading

\* C25: the modal is closed, the form reset and the refresh event
\* dispatched only after form.submit() resolved with
\* closeAfterSuccessfulSubmit set; an invalid form is never submitted; a
\* rejected submit leaves the modal as it was, without a refresh event;
\* and `loading` is false when the promise of #confirm has settled, in
\* each of these cases.
C25_SubmitHandling ==
    /\ [][FormsModalStep]_vars
    /\ [](formsModal.submits = Count(formsModal.confirms, "valid"))
    /\ [](formsModal.pending = 0 =>
            ~formsModal.loading)

\* An invalid form, a rejected submit and a successful submit, in that
\* order: one refresh event, the modal closing, loading false.
C25_Witness ==
    /\ formsModal.confirms = << "invalid", "valid", "valid" >>
    /\ formsModal.settled = << Settled("none", "fulfilled"),
                               Settled("rejected", "rejected"),
                               Settled("fulfilled", "fulfilled") >>
    /\ formsModal.refreshes = 1
    /\ formsModal.resets = 1
    /\ Count(formsModal.modal.history, "close") = 1
    /\ ~formsModal.loading

====
